---- MODULE Spec2Model ----
(***************************************************************************)
(* A model of zdq (src/index.js): a command-line front end that builds a   *)
(* Zig source file for one or more configurations and runs the result in   *)
(* Docker.  The model follows main() from the tokenisation of the argument *)
(* vector to the process exit, with the file system and the child          *)
(* processes as a nondeterministic environment.                            *)
(*                                                                         *)
(* JavaScript strings that the program inspects or compares (the argument  *)
(* tokens, configuration names, architecture names) are sequences of       *)
(* one-character strings; fixed literals that are only passed on are TLA+  *)
(* strings.  The path of the emitted binary (-femit-bin, ./name) is not    *)
(* tracked.                                                                *)
(***************************************************************************)
EXTENDS Naturals, Sequences, FiniteSets

VARIABLES
    argv,              \* process.argv.slice(2)
    hostArch,          \* os.arch(), once getDefaultConfig has read it
    persisted,         \* outcome of reading and parsing ~/.zdq.json
    pc,                \* position of main()
    tokens,            \* line 11
    command,           \* line 14: index of the command token, 0 = undefined
    availableConfigs,  \* line 19: own properties of the store, in order
    selected,          \* line 20
    file,              \* line 37: index of the file token, 0 = undefined
    extras,            \* line 46
    configs,           \* line 47
    failures,          \* line 48
    iter,              \* position of the for-of loop of line 49 in configs
    attempts,          \* configurations whose runTest/runProgram call began
    mkdirs,            \* outcomes of the mkdir calls made so far (line 211)
    child,             \* the external process that is running, if any
    spawned,           \* the calls of spawn() made so far (line 196)
    closed,            \* the close events received so far (line 197)
    stdout,            \* what was printed on process.stdout
    stderr,            \* what was logged on process.stderr
    exitCode           \* process exit status once pc = "exited"

vars == <<argv, hostArch, persisted, pc, tokens, command, availableConfigs,
          selected, file, extras, configs, failures, iter, attempts, mkdirs,
          child, spawned, closed, stdout, stderr, exitCode>>

----------------------------------------------------------------------------
(* Strings *)

S_test == <<"t", "e", "s", "t">>
S_run == <<"r", "u", "n">>
S_list == <<"l", "i", "s", "t">>
S_help == <<"h", "e", "l", "p">>
S_amd64 == <<"a", "m", "d", "6", "4">>
S_arm64 == <<"a", "r", "m", "6", "4">>
S_aarch64 == <<"a", "a", "r", "c", "h", "6", "4">>
S_x86_64 == <<"x", "8", "6", "_", "6", "4">>
S_linux == <<"l", "i", "n", "u", "x">>
S_ubuntu == <<"u", "b", "u", "n", "t", "u">>
S_x64 == <<"x", "6", "4">>
S_constructor == <<"c", "o", "n", "s", "t", "r", "u", "c", "t", "o", "r">>
S_toString == <<"t", "o", "S", "t", "r", "i", "n", "g">>
S_file == <<"f", ".", "z", "i", "g">>
S_flag == <<"-", "O">>
S_length == <<"l", "e", "n", "g", "t", "h">>
S_undefined == <<"u", "n", "d", "e", "f", "i", "n", "e", "d">>

availableCommands == <<S_test, S_run, S_list, S_help>>

\* Array.prototype.includes
Includes(arr, v) == \E k \in DOMAIN arr : arr[k] = v

\* String.prototype.startsWith('-')
StartsWithDash(value) == Len(value) >= 1 /\ value[1] = "-"

----------------------------------------------------------------------------
(* Bounds and inputs *)

MaxArgs == 3

\* the length of the command lines under the fair specification
MaxFairArgs == 2

\* the length of the command lines under the specification of long command
\* lines
MaxLongArgs == 5

Vocabulary == {S_test, S_run, S_list, S_help, S_amd64, S_constructor,
               S_file, S_flag}

\* the tokens of the long command lines: a command that takes a file and
\* extras, a configuration name, a file name and a flag
LongVocabulary == {S_run, S_amd64, S_file, S_flag}

SeqsUpTo(S, n) == UNION {[1..m -> S] : m \in 0..n}

\* the value undefined in a place where the program expects a string
NoString == <<"undefined">>

\* typeof x === 'string'
IsString(x) == x # NoString

\* `${x}`
Template(x) == IF x = NoString THEN S_undefined ELSE x

\* What the program can see of a JSON value v held by the store: its type,
\* whether it is truthy, and its members v.zig and v.docker.  A member is
\* nullish (undefined or null: reading a property of it throws) or has the
\* properties the program reads, each a string or undefined.
NoZig == [nullish |-> TRUE, arch |-> NoString, platform |-> NoString]
NoDocker ==
    [nullish |-> TRUE, arch |-> NoString, platform |-> NoString,
     image |-> NoString]

Zig(arch, platform) == [nullish |-> FALSE, arch |-> arch, platform |-> platform]
Docker(arch, platform, image) ==
    [nullish |-> FALSE, arch |-> arch, platform |-> platform, image |-> image]

JValue(type, truthy, zig, docker) ==
    [type |-> type, truthy |-> truthy, zig |-> zig, docker |-> docker]

\* null, 0, a one-character string, {}, a function or prototype object,
\* { zig: {...} }, { zig: {}, docker: {} }
JNull == JValue("null", FALSE, NoZig, NoDocker)
JZero == JValue("number", FALSE, NoZig, NoDocker)
JChar == JValue("string", TRUE, NoZig, NoDocker)
JEmptyObject == JValue("object", TRUE, NoZig, NoDocker)
JFunction == JValue("function", TRUE, NoZig, NoDocker)
JZigOnly(zigArch) == JValue("object", TRUE, Zig(zigArch, S_linux), NoDocker)
JEmptyMembers ==
    JValue("object", TRUE, Zig(NoString, NoString),
           Docker(NoString, NoString, NoString))

Descriptor(zigArch, dockerArch) ==
    JValue("object", TRUE, Zig(zigArch, S_linux),
           Docker(dockerArch, S_linux, S_ubuntu))

Entry(name, desc) == [name |-> name, value |-> desc]

E_amd64 == Entry(S_amd64, Descriptor(S_x86_64, S_amd64))
E_arm64 == Entry(S_arm64, Descriptor(S_aarch64, S_arm64))

Digits == <<"0", "1", "2", "3", "4", "5", "6", "7", "8", "9">>

\* the property name of the element at index i of an array or a string: the
\* decimal digits of i
IndexKey(i) ==
    LET D[n \in 0..i] ==
            IF n < 10 THEN <<Digits[n + 1]>>
            ELSE D[n \div 10] \o <<Digits[(n % 10) + 1]>>
    IN  D[i]

\* the own enumerable properties of an array (or string) of these elements
Elements(values) == [k \in DOMAIN values |-> Entry(IndexKey(k - 1), values[k])]

\* the value JSON.parse returned: its type and its own enumerable properties
\* in enumeration order
Parsed(type, entries) == [ok |-> TRUE, type |-> type, entries |-> entries]

\* What reading and parsing ~/.zdq.json can give: a failure, or any JSON
\* value.  The values below are: null; 0; "a"; [descriptor]; {}; stores of one
\* and of two descriptors; and stores whose amd64 property is 0, null, {},
\* { zig } without docker, and { zig: {}, docker: {} }.
PersistedFiles ==
    {[ok |-> FALSE, type |-> "undefined", entries |-> <<>>],
     Parsed("null", <<>>),
     Parsed("number", <<>>),
     Parsed("string", Elements(<<JChar>>)),
     Parsed("array", Elements(<<Descriptor(S_x86_64, S_amd64)>>)),
     Parsed("object", <<>>),
     Parsed("object", <<E_amd64>>),
     Parsed("object", <<E_arm64, E_amd64>>),
     Parsed("object", <<Entry(S_amd64, JZero)>>),
     Parsed("object", <<Entry(S_amd64, JNull)>>),
     Parsed("object", <<Entry(S_amd64, JEmptyObject)>>),
     Parsed("object", <<Entry(S_amd64, JZigOnly(S_x86_64))>>),
     Parsed("object", <<Entry(S_amd64, JEmptyMembers)>>)}

\* the persisted files of the long command lines: stores of one and of two
\* descriptors
LongFiles ==
    {Parsed("object", <<E_amd64>>), Parsed("object", <<E_arm64, E_amd64>>)}

HostArchs == {S_x64, S_arm64}

----------------------------------------------------------------------------
(* Values *)

\* a property value read from the store: undefined, one of the store's own
\* enumerable properties, the length of an array or string, or a member
\* inherited from the prototype chain
Undefined == [kind |-> "undefined", idx |-> 0]
Own(k) == [kind |-> "own", idx |-> k]
Length(n) == [kind |-> "length", idx |-> n]
Inherited == [kind |-> "proto", idx |-> 0]

NoChild == [cmd |-> "none", config |-> 0]

\* the string-keyed members of Object.prototype, Array.prototype,
\* String.prototype and Number.prototype (Boolean.prototype has constructor,
\* toString and valueOf only); every one of them is a function or an object
ObjectPrototypeKeys ==
    {S_constructor,
     <<"_", "_", "d", "e", "f", "i", "n", "e", "G", "e", "t", "t", "e", "r", "_", "_">>,
     <<"_", "_", "d", "e", "f", "i", "n", "e", "S", "e", "t", "t", "e", "r", "_", "_">>,
     <<"h", "a", "s", "O", "w", "n", "P", "r", "o", "p", "e", "r", "t", "y">>,
     <<"_", "_", "l", "o", "o", "k", "u", "p", "G", "e", "t", "t", "e", "r", "_", "_">>,
     <<"_", "_", "l", "o", "o", "k", "u", "p", "S", "e", "t", "t", "e", "r", "_", "_">>,
     <<"i", "s", "P", "r", "o", "t", "o", "t", "y", "p", "e", "O", "f">>,
     <<"p", "r", "o", "p", "e", "r", "t", "y", "I", "s", "E", "n", "u", "m", "e", "r", "a", "b", "l", "e">>,
     S_toString,
     <<"v", "a", "l", "u", "e", "O", "f">>,
     <<"_", "_", "p", "r", "o", "t", "o", "_", "_">>,
     <<"t", "o", "L", "o", "c", "a", "l", "e", "S", "t", "r", "i", "n", "g">>}

ArrayPrototypeKeys ==
    {<<"a", "t">>,
     <<"c", "o", "n", "c", "a", "t">>,
     <<"c", "o", "p", "y", "W", "i", "t", "h", "i", "n">>,
     <<"e", "n", "t", "r", "i", "e", "s">>,
     <<"e", "v", "e", "r", "y">>,
     <<"f", "i", "l", "l">>,
     <<"f", "i", "l", "t", "e", "r">>,
     <<"f", "i", "n", "d">>,
     <<"f", "i", "n", "d", "I", "n", "d", "e", "x">>,
     <<"f", "i", "n", "d", "L", "a", "s", "t">>,
     <<"f", "i", "n", "d", "L", "a", "s", "t", "I", "n", "d", "e", "x">>,
     <<"f", "l", "a", "t">>,
     <<"f", "l", "a", "t", "M", "a", "p">>,
     <<"f", "o", "r", "E", "a", "c", "h">>,
     <<"i", "n", "c", "l", "u", "d", "e", "s">>,
     <<"i", "n", "d", "e", "x", "O", "f">>,
     <<"j", "o", "i", "n">>,
     <<"k", "e", "y", "s">>,
     <<"l", "a", "s", "t", "I", "n", "d", "e", "x", "O", "f">>,
     <<"m", "a", "p">>,
     <<"p", "o", "p">>,
     <<"p", "u", "s", "h">>,
     <<"r", "e", "d", "u", "c", "e">>,
     <<"r", "e", "d", "u", "c", "e", "R", "i", "g", "h", "t">>,
     <<"r", "e", "v", "e", "r", "s", "e">>,
     <<"s", "h", "i", "f", "t">>,
     <<"s", "l", "i", "c", "e">>,
     <<"s", "o", "m", "e">>,
     <<"s", "o", "r", "t">>,
     <<"s", "p", "l", "i", "c", "e">>,
     <<"t", "o", "R", "e", "v", "e", "r", "s", "e", "d">>,
     <<"t", "o", "S", "o", "r", "t", "e", "d">>,
     <<"t", "o", "S", "p", "l", "i", "c", "e", "d">>,
     <<"u", "n", "s", "h", "i", "f", "t">>,
     <<"v", "a", "l", "u", "e", "s">>,
     <<"w", "i", "t", "h">>}

StringPrototypeKeys ==
    {<<"a", "n", "c", "h", "o", "r">>,
     <<"a", "t">>,
     <<"b", "i", "g">>,
     <<"b", "l", "i", "n", "k">>,
     <<"b", "o", "l", "d">>,
     <<"c", "h", "a", "r", "A", "t">>,
     <<"c", "h", "a", "r", "C", "o", "d", "e", "A", "t">>,
     <<"c", "o", "d", "e", "P", "o", "i", "n", "t", "A", "t">>,
     <<"c", "o", "n", "c", "a", "t">>,
     <<"e", "n", "d", "s", "W", "i", "t", "h">>,
     <<"f", "i", "x", "e", "d">>,
     <<"f", "o", "n", "t", "c", "o", "l", "o", "r">>,
     <<"f", "o", "n", "t", "s", "i", "z", "e">>,
     <<"i", "n", "c", "l", "u", "d", "e", "s">>,
     <<"i", "n", "d", "e", "x", "O", "f">>,
     <<"i", "s", "W", "e", "l", "l", "F", "o", "r", "m", "e", "d">>,
     <<"i", "t", "a", "l", "i", "c", "s">>,
     <<"l", "a", "s", "t", "I", "n", "d", "e", "x", "O", "f">>,
     <<"l", "i", "n", "k">>,
     <<"l", "o", "c", "a", "l", "e", "C", "o", "m", "p", "a", "r", "e">>,
     <<"m", "a", "t", "c", "h">>,
     <<"m", "a", "t", "c", "h", "A", "l", "l">>,
     <<"n", "o", "r", "m", "a", "l", "i", "z", "e">>,
     <<"p", "a", "d", "E", "n", "d">>,
     <<"p", "a", "d", "S", "t", "a", "r", "t">>,
     <<"r", "e", "p", "e", "a", "t">>,
     <<"r", "e", "p", "l", "a", "c", "e">>,
     <<"r", "e", "p", "l", "a", "c", "e", "A", "l", "l">>,
     <<"s", "e", "a", "r", "c", "h">>,
     <<"s", "l", "i", "c", "e">>,
     <<"s", "m", "a", "l", "l">>,
     <<"s", "p", "l", "i", "t">>,
     <<"s", "t", "a", "r", "t", "s", "W", "i", "t", "h">>,
     <<"s", "t", "r", "i", "k", "e">>,
     <<"s", "u", "b">>,
     <<"s", "u", "b", "s", "t", "r">>,
     <<"s", "u", "b", "s", "t", "r", "i", "n", "g">>,
     <<"s", "u", "p">>,
     <<"t", "o", "L", "o", "c", "a", "l", "e", "L", "o", "w", "e", "r", "C", "a", "s", "e">>,
     <<"t", "o", "L", "o", "c", "a", "l", "e", "U", "p", "p", "e", "r", "C", "a", "s", "e">>,
     <<"t", "o", "L", "o", "w", "e", "r", "C", "a", "s", "e">>,
     <<"t", "o", "U", "p", "p", "e", "r", "C", "a", "s", "e">>,
     <<"t", "o", "W", "e", "l", "l", "F", "o", "r", "m", "e", "d">>,
     <<"t", "r", "i", "m">>,
     <<"t", "r", "i", "m", "E", "n", "d">>,
     <<"t", "r", "i", "m", "L", "e", "f", "t">>,
     <<"t", "r", "i", "m", "R", "i", "g", "h", "t">>,
     <<"t", "r", "i", "m", "S", "t", "a", "r", "t">>}

NumberPrototypeKeys ==
    {<<"t", "o", "E", "x", "p", "o", "n", "e", "n", "t", "i", "a", "l">>,
     <<"t", "o", "F", "i", "x", "e", "d">>,
     <<"t", "o", "P", "r", "e", "c", "i", "s", "i", "o", "n">>}

PrototypeKeys(type) ==
    ObjectPrototypeKeys \cup
        (CASE type = "array" -> ArrayPrototypeKeys
           [] type = "string" -> StringPrototypeKeys
           [] type = "number" -> NumberPrototypeKeys
           [] OTHER -> {})

Min(S) == CHOOSE k \in S : \A j \in S : k <= j

\* Array.prototype.find over the indexes that pass the test: the first one,
\* 0 = undefined
First(hits) == IF hits = {} THEN 0 ELSE Min(hits)

IsPositionalAlways(t) == TRUE

\* line 14: t => !t.flags
IsPositional(t) == ~t.flags

IsFreeIgnoringConsumed(t) == ~t.flags

\* lines 29, 39: t => !t.flags && !t.consumed
IsFree(t) == ~t.flags /\ ~t.consumed

\* line 14: tokens.find(t => !t.flags)
FindPositional(toks) == First({k \in DOMAIN toks : IsPositional(toks[k])})

\* lines 29, 39: tokens.find(t => !t.flags && !t.consumed)
FindFree(toks) == First({k \in DOMAIN toks : IsFree(toks[k])})

ConsumeNothing(toks, k) == toks

\* lines 22, 36, 44: t.consumed = true
Consume(toks, k) == [toks EXCEPT ![k].consumed = TRUE]

\* obj[key] throws when obj is null
GetPropertyThrows(obj) == obj.type = "null"

\* obj[key] on the value JSON.parse returned (not null): an own property
\* first, then the prototype chain of the value's type
GetProperty(obj, key) ==
    LET own == {k \in DOMAIN obj.entries : obj.entries[k].name = key}
    IN  IF own # {} THEN Own(Min(own))
        ELSE IF obj.type \in {"array", "string"} /\ key = S_length
               THEN Length(Len(obj.entries))
        ELSE IF key \in PrototypeKeys(obj.type) THEN Inherited
        ELSE Undefined

\* the value a property reference stands for
Config(ref) ==
    CASE ref.kind = "own" -> availableConfigs.entries[ref.idx].value
      [] ref.kind = "length" -> JValue("number", ref.idx # 0, NoZig, NoDocker)
      [] ref.kind = "proto" -> JFunction
      [] OTHER -> JValue("undefined", FALSE, NoZig, NoDocker)

Truthy(v) == Config(v).truthy

\* Object.values(obj) throws when obj is null
ObjectValuesThrows(obj) == obj.type = "null"

\* Object.values
ObjectValues(obj) == [k \in DOMAIN obj.entries |-> Own(k)]

IsUnconsumedFlag(t) == ~t.consumed /\ t.flags

\* line 46: t => !t.consumed
IsUnconsumed(t) == ~t.consumed

\* line 46: tokens.filter(t => !t.consumed)
FilterUnconsumed(s) ==
    LET F[k \in 0..Len(s)] ==
            IF k = 0 THEN <<>>
            ELSE IF IsUnconsumed(s[k]) THEN Append(F[k - 1], s[k]) ELSE F[k - 1]
    IN  F[Len(s)]

Values(toks) == [k \in DOMAIN toks |-> toks[k].value]

\* lines 80, 118, 147: `${zig.arch}-${zig.platform}`
Target(zig) == Template(zig.arch) \o <<"-">> \o Template(zig.platform)

\* lines 86, 90, 124, 128, 148: `${docker.platform}/${docker.arch}`
Platform(docker) == Template(docker.platform) \o <<"/">> \o Template(docker.arch)

----------------------------------------------------------------------------
(* Output *)

HelpText == [kind |-> "help", names |-> <<>>, text |-> <<>>]
Running(what, docker) ==
    [kind |-> what, names |-> <<>>, text |-> <<Platform(docker)>>]

\* lines 145-150: the number of print calls made for an entry of this value
\* before the loop body ends (5) or throws: at the destructuring when the
\* value is null, at zig.arch (line 147), at docker.platform (line 148)
PrintsOf(v) ==
    IF v.type = "null" THEN 0
    ELSE IF v.zig.nullish THEN 1
    ELSE IF v.docker.nullish THEN 2
    ELSE 5

\* the lines printed for one entry: its name, the compile target, the
\* container platform and the image
LinesOf(e) ==
    SubSeq(<<e.name, Target(e.value.zig), Platform(e.value.docker),
             Template(e.value.docker.image)>>,
           1, IF PrintsOf(e.value) = 5 THEN 4 ELSE PrintsOf(e.value))

\* the entry at which listConfigurations throws, 0 if it returns
ListingThrowsAt(obj) ==
    First({k \in DOMAIN obj.entries : PrintsOf(obj.entries[k].value) < 5})

\* the source line of that throw
ListingThrowsLine(obj) ==
    LET n == PrintsOf(obj.entries[ListingThrowsAt(obj)].value)
    IN  IF n = 0 THEN "index.js:145" ELSE IF n = 1 THEN "index.js:147"
        ELSE "index.js:148"

\* lines 144-152, listConfigurations: what it prints before it returns or
\* throws (names: the entries whose name was printed)
Listing(obj) ==
    LET last == IF ListingThrowsAt(obj) = 0 THEN Len(obj.entries)
                ELSE ListingThrowsAt(obj)
        N[k \in 0..last] ==
            IF k = 0 THEN <<>>
            ELSE IF PrintsOf(obj.entries[k].value) = 0 THEN N[k - 1]
            ELSE Append(N[k - 1], obj.entries[k].name)
        T[k \in 0..last] ==
            IF k = 0 THEN <<>> ELSE T[k - 1] \o LinesOf(obj.entries[k])
    IN  [kind |-> "listing", names |-> N[last], text |-> T[last]]

ErrNotFound(name) ==
    [pre |-> "error: configuration \"", name |-> name, post |-> "\" not found\n"]
ErrNoCommand == [pre |-> "error: expected command arument\n", name |-> <<>>, post |-> ""]
ErrNoFile == [pre |-> "error: expected filename\n", name |-> <<>>, post |-> ""]
ErrUncaught == [pre |-> "Uncaught Error: spawn", name |-> <<>>, post |-> ""]

\* a TypeError thrown in main outside runTest/runProgram: the promise of main
\* is rejected with no handler, the error is reported and the process ends
\* with status 1
ErrTypeError(line) == [pre |-> "TypeError", name |-> <<>>, post |-> line]

----------------------------------------------------------------------------
(* main *)

\* availableConfigs before line 19 has run
NotLoaded == [type |-> "undefined", entries |-> <<>>]

\* a JSON object with these own properties
Store(entries) == [type |-> "object", entries |-> entries]

\* the state at the entry of main, for a command line of args and a persisted
\* file of files
Start(args, files) ==
    /\ argv \in args
    /\ hostArch = <<>>
    /\ persisted \in files
    /\ pc = "start"
    /\ tokens = <<>>
    /\ command = 0
    /\ availableConfigs = NotLoaded
    /\ selected = Undefined
    /\ file = 0
    /\ extras = <<>>
    /\ configs = <<>>
    /\ failures = 0
    /\ iter = 0
    /\ attempts = <<>>
    /\ mkdirs = <<>>
    /\ child = NoChild
    /\ spawned = <<>>
    /\ closed = <<>>
    /\ stdout = <<>>
    /\ stderr = <<>>
    /\ exitCode = 0

Init == Start(SeqsUpTo(Vocabulary, MaxArgs), PersistedFiles)

\* process.exit(code), or the end of main with nothing left to wait for
Exit(code) == pc' = "exited" /\ exitCode' = code

\* lines 11-18
Tokenize ==
    /\ pc = "start"
    /\ LET toks == [k \in DOMAIN argv |->
                       [value |-> argv[k], flags |-> StartsWithDash(argv[k]),
                        consumed |-> FALSE]]
           cmd == FindPositional(toks)
       IN  /\ tokens' = toks
           /\ command' = cmd
           /\ IF cmd = 0
                THEN /\ stdout' = Append(stdout, HelpText)
                     /\ Exit(0)
                ELSE /\ pc' = "load"
                     /\ UNCHANGED <<stdout, exitCode>>
    /\ UNCHANGED <<argv, hostArch, persisted, availableConfigs, selected, file,
                   extras, configs, failures, iter, attempts, mkdirs, child, spawned,
                   closed, stderr>>

getDefaultConfigNative(arch) ==
    Descriptor(IF arch = S_x64 THEN S_x86_64 ELSE S_aarch64,
               IF arch = S_x64 THEN S_amd64 ELSE S_arm64)

\* lines 166-178
getDefaultConfig(arch) ==
    Descriptor(IF arch = S_x64 THEN S_aarch64 ELSE S_x86_64,
               IF arch = S_x64 THEN S_arm64 ELSE S_amd64)

\* lines 19, 180-189
loadConfigurations ==
    /\ pc = "load"
    /\ IF persisted.ok
         THEN /\ availableConfigs' = [type |-> persisted.type,
                                      entries |-> persisted.entries]
              /\ UNCHANGED hostArch
         ELSE \E arch \in HostArchs :
                LET def == getDefaultConfig(arch)
                IN  /\ hostArch' = arch
                    /\ availableConfigs' = Store(<<Entry(def.docker.arch, def)>>)
    /\ pc' = "selector"
    /\ UNCHANGED <<argv, persisted, tokens, command, selected, file, extras,
                   configs, failures, iter, attempts, mkdirs, child, spawned,
                   closed, stdout, stderr, exitCode>>

\* process.exit(1) after the report of an uncaught TypeError thrown at line
Crash(line) ==
    /\ stderr' = Append(stderr, ErrTypeError(line))
    /\ Exit(1)

\* lines 20-35
ResolveSelector ==
    /\ pc = "selector"
    /\ IF Includes(availableCommands, tokens[command].value)
         THEN /\ pc' = "command"
              /\ UNCHANGED <<tokens, command, selected, stdout, stderr, exitCode>>
         ELSE LET toks == Consume(tokens, command)
                  sel == GetProperty(availableConfigs, tokens[command].value)
                  next == FindFree(toks)
              IN  /\ tokens' = toks
                  /\ IF GetPropertyThrows(availableConfigs)
                       THEN /\ Crash("index.js:23")
                            /\ UNCHANGED <<selected, command, stdout>>
                       ELSE /\ selected' = sel
                            /\ IF ~Truthy(sel)
                                 THEN /\ stdout' = Append(stdout, Listing(availableConfigs))
                                      /\ IF ListingThrowsAt(availableConfigs) # 0
                                           THEN Crash(ListingThrowsLine(availableConfigs))
                                           ELSE /\ stderr' = Append(stderr,
                                                       ErrNotFound(tokens[command].value))
                                                /\ Exit(1)
                                      /\ UNCHANGED command
                                 ELSE /\ command' = next
                                      /\ IF next = 0
                                           THEN /\ stdout' = Append(stdout, HelpText)
                                                /\ stderr' = Append(stderr, ErrNoCommand)
                                                /\ Exit(1)
                                           ELSE /\ pc' = "command"
                                                /\ UNCHANGED <<stdout, stderr, exitCode>>
    /\ UNCHANGED <<argv, hostArch, persisted, availableConfigs, file, extras,
                   configs, failures, iter, attempts, mkdirs, child, spawned,
                   closed>>

\* line 38
NeedsFile(value) == Includes(<<S_run, S_test>>, value)

\* lines 36-45
ResolveCommand ==
    /\ pc = "command"
    /\ LET toks == Consume(tokens, command)
           f == FindFree(toks)
       IN  IF NeedsFile(tokens[command].value)
             THEN /\ file' = f
                  /\ IF f = 0
                       THEN /\ tokens' = toks
                            /\ stderr' = Append(stderr, ErrNoFile)
                            /\ Exit(1)
                       ELSE /\ tokens' = Consume(toks, f)
                            /\ pc' = "prepare"
                            /\ UNCHANGED <<stderr, exitCode>>
             ELSE /\ tokens' = toks
                  /\ pc' = "prepare"
                  /\ UNCHANGED <<file, stderr, exitCode>>
    /\ UNCHANGED <<argv, hostArch, persisted, command, availableConfigs,
                   selected, extras, configs, failures, iter, attempts, mkdirs,
                   child, spawned, closed, stdout>>

\* lines 46-48
PrepareDispatch ==
    /\ pc = "prepare"
    /\ extras' = Values(FilterUnconsumed(tokens))
    /\ IF ~Truthy(selected) /\ ObjectValuesThrows(availableConfigs)
         THEN /\ Crash("index.js:47")
              /\ UNCHANGED <<configs, failures, iter>>
         ELSE /\ configs' = IF Truthy(selected) THEN <<selected>>
                            ELSE ObjectValues(availableConfigs)
              /\ failures' = 0
              /\ iter' = 1
              /\ pc' = "loop"
              /\ UNCHANGED <<stderr, exitCode>>
    /\ UNCHANGED <<argv, hostArch, persisted, tokens, command, availableConfigs,
                   selected, file, attempts, mkdirs, child, spawned, closed,
                   stdout>>

----------------------------------------------------------------------------
(* The dispatch loop, runTest and runProgram *)

\* failures = await ... in place of failures += await ...
ReturnAssigned(n) ==
    /\ failures' = n
    /\ iter' = iter + 1
    /\ pc' = "loop"

\* the value returned by runTest/runProgram is added to failures (lines 52,
\* 55) and the loop goes on to the next configuration
Return(n) ==
    /\ failures' = failures + n
    /\ iter' = iter + 1
    /\ pc' = "loop"

\* lines 70-74 (109-113): the attempt throws before mkdir is called, at the
\* destructuring of null, at zig.arch when zig is undefined or null, or in
\* path.join when zig.arch or zig.platform is not a string
ThrowsBeforeMakeDir(config) ==
    \/ config.type = "null"
    \/ config.zig.nullish
    \/ ~IsString(config.zig.arch)
    \/ ~IsString(config.zig.platform)

\* line 86 (124): docker.platform throws when docker is undefined or null
ThrowsBeforeContainer(config) == config.docker.nullish

\* lines 49-63, and lines 69-75 (109-114) up to the call of mkdir
Dispatch ==
    /\ pc = "loop"
    /\ iter <= Len(configs)
    /\ LET cmd == tokens[command].value
       IN  IF cmd \in {S_test, S_run}
             THEN /\ attempts' = Append(attempts, configs[iter])
                  /\ IF ThrowsBeforeMakeDir(Config(configs[iter]))
                       THEN Return(1)   \* TypeError, caught (lines 102, 139)
                       ELSE /\ pc' = "mkdir"
                            /\ UNCHANGED <<failures, iter>>
                  /\ UNCHANGED <<stdout, stderr, exitCode>>
             ELSE IF cmd = S_list
             THEN /\ stdout' = Append(stdout, Listing(availableConfigs))
                  /\ IF ListingThrowsAt(availableConfigs) # 0
                       THEN Crash(ListingThrowsLine(availableConfigs))
                       ELSE Exit(0) /\ UNCHANGED stderr
                  /\ UNCHANGED <<failures, iter, attempts>>
             ELSE IF cmd = S_help
             THEN /\ stdout' = Append(stdout, HelpText)
                  /\ Exit(0)
                  /\ UNCHANGED <<failures, iter, attempts, stderr>>
             ELSE /\ Return(0)
                  /\ UNCHANGED <<stdout, stderr, exitCode, attempts>>
    /\ UNCHANGED <<argv, hostArch, persisted, tokens, command, availableConfigs,
                   selected, file, extras, configs, mkdirs, child, spawned,
                   closed>>

\* line 65: failures ? 1 : 0
ExitStatus(n) == IF n # 0 THEN 1 ELSE 0

\* line 65
ExitMain ==
    /\ pc = "loop"
    /\ iter > Len(configs)
    /\ Exit(ExitStatus(failures))
    /\ UNCHANGED <<argv, hostArch, persisted, tokens, command, availableConfigs,
                   selected, file, extras, configs, failures, iter, attempts,
                   mkdirs, child, spawned, closed, stdout, stderr>>

MkdirOutcomes == {"ok", "EEXIST", "EACCES"}

makeDirThrowsUnlessOk(outcome) == outcome # "ok"

\* lines 209-217: does makeDir throw?
makeDirThrows(outcome) == outcome # "ok" /\ outcome # "EEXIST"

\* lines 75, 209-217 (114)
MakeDir ==
    /\ pc = "mkdir"
    /\ \E outcome \in MkdirOutcomes :
         /\ mkdirs' = Append(mkdirs, [config |-> iter, outcome |-> outcome])
         /\ IF makeDirThrows(outcome)
              THEN Return(1)
              ELSE /\ pc' = "compile"
                   /\ UNCHANGED <<failures, iter>>
    /\ UNCHANGED <<argv, hostArch, persisted, tokens, command, availableConfigs,
                   selected, file, extras, configs, attempts, child, spawned,
                   closed, stdout, stderr, exitCode>>

\* lines 76-84 (115-122): the arguments of the compile step
ZigArgs(cmd, config, f, ex) ==
    [cmd |-> "zig",
     head |-> IF cmd = S_test THEN <<"test", "--test-no-exec", "-target">>
              ELSE <<"build-exe", "-target">>,
     target |-> Target(config.zig),
     rest |-> <<f>> \o ex,
     config |-> iter]

\* lines 87-100 (125-137): the arguments of the container step
DockerArgs(cmd, config) ==
    [cmd |-> "docker",
     head |-> IF cmd = S_test
                THEN <<"run", "--platform", "-v", "-w", "--rm", "-t", "-q">>
                ELSE <<"run", "--platform", "-v", "-w", "--rm", "-t">>,
     target |-> Platform(config.docker),
     rest |-> <<Template(config.docker.image)>>,
     config |-> iter]

\* what spawn() can do (line 196): start the child; throw; or return a child
\* that emits 'error' because the program could not be started
SpawnOutcomes == {"started", "throws", "error"}

\* run() resolving as soon as the child is started, without waiting for its
\* close event
SpawnDetached(args, outcome, waiting) ==
    /\ spawned' = Append(spawned, [call |-> args, outcome |-> outcome])
    /\ IF outcome = "started"
         THEN /\ child' = [cmd |-> args.cmd, config |-> iter]
              /\ IF waiting = "compiling"
                   THEN pc' = "container" /\ UNCHANGED <<failures, iter>>
                   ELSE Return(0)
              /\ UNCHANGED <<stderr, exitCode>>
         ELSE IF outcome = "throws"
         THEN /\ Return(1)
              /\ UNCHANGED <<child, stderr, exitCode>>
         ELSE /\ stderr' = Append(stderr, ErrUncaught)
              /\ Exit(1)
              /\ UNCHANGED <<child, failures, iter>>

\* run() without the await of the compile step
SpawnNoAwait(args, outcome, waiting) ==
    /\ spawned' = Append(spawned, [call |-> args, outcome |-> outcome])
    /\ IF outcome = "started"
         THEN /\ child' = [cmd |-> args.cmd, config |-> iter]
              /\ pc' = IF waiting = "compiling" THEN "container" ELSE waiting
              /\ UNCHANGED <<failures, iter, stderr, exitCode>>
         ELSE IF outcome = "throws"
         THEN /\ Return(1)
              /\ UNCHANGED <<child, stderr, exitCode>>
         ELSE /\ stderr' = Append(stderr, ErrUncaught)
              /\ Exit(1)
              /\ UNCHANGED <<child, failures, iter>>

\* lines 191-196: run() up to the return of spawn
Spawn(args, outcome, waiting) ==
    /\ spawned' = Append(spawned, [call |-> args, outcome |-> outcome])
    /\ IF outcome = "started"
         THEN /\ child' = [cmd |-> args.cmd, config |-> iter]
              /\ pc' = waiting
              /\ UNCHANGED <<failures, iter, stderr, exitCode>>
         ELSE IF outcome = "throws"
         THEN \* the executor throws: the promise is rejected, the caller catches
              /\ Return(1)
              /\ UNCHANGED <<child, stderr, exitCode>>
         ELSE \* 'error' is emitted and has no listener: uncaught exception
              /\ stderr' = Append(stderr, ErrUncaught)
              /\ Exit(1)
              /\ UNCHANGED <<child, failures, iter>>

\* lines 76-84 (115-122)
SpawnCompile ==
    /\ pc = "compile"
    /\ \E outcome \in SpawnOutcomes :
         Spawn(ZigArgs(tokens[command].value, Config(configs[iter]),
                       tokens[file].value, extras),
               outcome, "compiling")
    /\ UNCHANGED <<argv, hostArch, persisted, tokens, command, availableConfigs,
                   selected, file, extras, configs, attempts, mkdirs, closed,
                   stdout>>

\* the close event of a child: its exit code, or null when a signal ended it
CloseEvents ==
    {[code |-> 0, isNull |-> FALSE], [code |-> 1, isNull |-> FALSE],
     [code |-> 0, isNull |-> TRUE]}

NotCodeAlways(evt) == TRUE

\* line 198: !code
NotCode(evt) == evt.isNull \/ evt.code = 0

\* lines 198-204: how the promise of run() is settled by the close event;
\* a rejection carries the code of the event (err.code = code)
Settle(evt) ==
    IF NotCode(evt) THEN [settled |-> "resolved", code |-> 0, isNull |-> FALSE]
    ELSE [settled |-> "rejected", code |-> evt.code, isNull |-> evt.isNull]

\* lines 197-205, for the compile step
CompileClose ==
    /\ pc = "compiling"
    /\ \E evt \in CloseEvents :
         /\ closed' = Append(closed, [cmd |-> child.cmd, config |-> child.config,
                                      evt |-> evt, result |-> Settle(evt)])
         /\ child' = NoChild
         /\ IF Settle(evt).settled = "resolved"
              THEN /\ pc' = "container"
                   /\ UNCHANGED <<failures, iter>>
              ELSE Return(1)
    /\ UNCHANGED <<argv, hostArch, persisted, tokens, command, availableConfigs,
                   selected, file, extras, configs, attempts, mkdirs, spawned,
                   stdout, stderr, exitCode>>

\* lines 85-100 (123-137)
SpawnContainer ==
    /\ pc = "container"
    /\ IF ThrowsBeforeContainer(Config(configs[iter]))
         THEN /\ Return(1)   \* TypeError, caught (lines 102, 139)
              /\ UNCHANGED <<stdout, stderr, exitCode, child, spawned>>
         ELSE /\ stdout' = Append(stdout,
                                Running(IF tokens[command].value = S_test
                                          THEN "Running test in"
                                          ELSE "Running executable in",
                                        Config(configs[iter]).docker))
              /\ \E outcome \in SpawnOutcomes :
                   Spawn(DockerArgs(tokens[command].value, Config(configs[iter])),
                         outcome, "running")
    /\ UNCHANGED <<argv, hostArch, persisted, tokens, command, availableConfigs,
                   selected, file, extras, configs, attempts, mkdirs, closed>>

\* lines 197-205, for the container step, and lines 101 (138)
ContainerClose ==
    /\ pc = "running"
    /\ \E evt \in CloseEvents :
         /\ closed' = Append(closed, [cmd |-> child.cmd, config |-> child.config,
                                      evt |-> evt, result |-> Settle(evt)])
         /\ child' = NoChild
         /\ IF Settle(evt).settled = "resolved" THEN Return(0) ELSE Return(1)
    /\ UNCHANGED <<argv, hostArch, persisted, tokens, command, availableConfigs,
                   selected, file, extras, configs, attempts, mkdirs, spawned,
                   stdout, stderr, exitCode>>

Next ==
    \/ Tokenize
    \/ loadConfigurations
    \/ ResolveSelector
    \/ ResolveCommand
    \/ PrepareDispatch
    \/ Dispatch
    \/ ExitMain
    \/ MakeDir
    \/ SpawnCompile
    \/ CompileClose
    \/ SpawnContainer
    \/ ContainerClose

Spec == Init /\ [][Next]_vars

\* The event loop runs every continuation that is ready; the file system
\* completes mkdir and every child that was started closes in the end.
FairInit == Init /\ Len(argv) <= MaxFairArgs

FairSpec == FairInit /\ [][Next]_vars /\ WF_vars(Next)

\* The same program on command lines long enough to leave several tokens
\* unconsumed (flags and positionals, before and after the command and the
\* file).
LongInit == Start(SeqsUpTo(LongVocabulary, MaxLongArgs), LongFiles)

LongSpec == LongInit /\ [][Next]_vars

----------------------------------------------------------------------------
(* Vocabulary of the properties *)

\* the resolved command is run or test
RunOrTest == command # 0 /\ tokens[command].value \in {S_test, S_run}

\* argument validation has passed: the dispatcher was entered
Validated == iter >= 1

Exited == pc = "exited"

\* the dispatch loop ran to its end (line 65)
LoopFinished == Exited /\ Validated /\ iter > Len(configs)

\* the step cmd of configuration k ended with exit status 0
ExitedZero(cmd, k) ==
    \E j \in DOMAIN closed :
        /\ closed[j].cmd = cmd /\ closed[j].config = k
        /\ ~closed[j].evt.isNull /\ closed[j].evt.code = 0

\* the step cmd of configuration k ended with a non-zero exit status
ExitedNonZero(cmd, k) ==
    \E j \in DOMAIN closed :
        /\ closed[j].cmd = cmd /\ closed[j].config = k
        /\ ~closed[j].evt.isNull /\ closed[j].evt.code # 0

SpawnCalled(cmd, k) ==
    \E j \in DOMAIN spawned :
        spawned[j].call.cmd = cmd /\ spawned[j].call.config = k

\* the external program of configuration k could not be started
FailedToStart(k) ==
    \E j \in DOMAIN spawned :
        spawned[j].call.config = k /\ spawned[j].outcome = "error"

\* an error was raised during the attempt for configuration k
ErrorRaised(k) ==
    \/ k \in DOMAIN attempts /\ ThrowsBeforeMakeDir(Config(attempts[k]))
    \/ /\ k \in DOMAIN attempts /\ ThrowsBeforeContainer(Config(attempts[k]))
       /\ \E j \in DOMAIN closed :
             /\ closed[j].cmd = "zig" /\ closed[j].config = k
             /\ closed[j].result.settled = "resolved"
    \/ \E j \in DOMAIN mkdirs :
          mkdirs[j].config = k /\ mkdirs[j].outcome \notin {"ok", "EEXIST"}
    \/ \E j \in DOMAIN spawned :
          spawned[j].call.config = k /\ spawned[j].outcome = "throws"

\* both steps of configuration k succeeded
ConfigSucceeded(k) == ExitedZero("zig", k) /\ ExitedZero("docker", k)

\* a failure in the sense of a non-zero exit or a raised error
AttemptFailed(k) ==
    ExitedNonZero("zig", k) \/ ExitedNonZero("docker", k) \/ ErrorRaised(k)

----------------------------------------------------------------------------
(* Claims *)

\* C1 (as claimed): a run or test invocation that passed validation exits
\* with status 0 exactly when the compile step and the container step of
\* every configuration succeeded.
C1_ExitZeroIffAllSucceeded ==
    (Exited /\ Validated /\ RunOrTest) =>
        (exitCode = 0 <=> \A k \in DOMAIN configs : ConfigSucceeded(k))

\* C2 (as claimed): when the dispatch loop of a run or test invocation has
\* finished, failures is the number of configurations with a failed step, and
\* if every configuration succeeded failures is 0 and the exit status is 0.
C2_FailuresCountFailedConfigs ==
    (LoopFinished /\ RunOrTest) =>
        /\ failures = Cardinality({k \in DOMAIN configs : ~ConfigSucceeded(k)})
        /\ (\A k \in DOMAIN configs : ConfigSucceeded(k)) =>
               (failures = 0 /\ exitCode = 0)

\* C3 (as claimed): in a run or test invocation every failure of an attempt
\* (a non-zero exit, a raised error, a program that cannot be started) adds
\* one to failures and every configuration of the list is attempted once.
C3_FailureIsContained ==
    (Exited /\ Validated /\ RunOrTest) =>
        /\ attempts = configs
        /\ failures = Cardinality({k \in DOMAIN configs :
                                      AttemptFailed(k) \/ FailedToStart(k)})

\* C4: if the compile step of a configuration exits non-zero, the container
\* step is never called for that configuration, the attempt is over, and the
\* configuration counts as one failure; with a single configuration the
\* invocation ends with failures = 1 and exit status 1.
C4_CompileFailureSkipsContainer ==
    \A k \in DOMAIN configs :
        ExitedNonZero("zig", k) =>
            /\ ~SpawnCalled("docker", k)
            /\ k < iter
            /\ failures = Cardinality({j \in 1..(iter - 1) : AttemptFailed(j)})
            /\ (Exited /\ Len(configs) = 1) => (failures = 1 /\ exitCode = 1)

C4_Witness ==
    /\ Exited /\ Len(configs) = 2 /\ exitCode = 1
    /\ ExitedNonZero("zig", 1) /\ ExitedZero("docker", 2)

\* the value of the first positional token of the command line
FirstPositional == tokens[FindPositional(tokens)].value

\* the store has a configuration of that name
InStore(name) ==
    \E k \in DOMAIN availableConfigs.entries :
        availableConfigs.entries[k].name = name

\* C5 (as claimed): run/test operate on the one configuration the selector
\* names when the first positional token is a selector, and otherwise, with no
\* selector lookup, on every configuration of the store once, in store order.
C5_ConfigsOperatedOn ==
    (Validated /\ RunOrTest) =>
        /\ IF Includes(availableCommands, FirstPositional)
             THEN /\ selected = Undefined
                  /\ configs = [k \in DOMAIN availableConfigs.entries |-> Own(k)]
             ELSE \E k \in DOMAIN availableConfigs.entries :
                     /\ availableConfigs.entries[k].name = FirstPositional
                     /\ configs = <<Own(k)>>
        /\ LoopFinished => attempts = configs

\* C6 (as claimed): a first positional token that is no command name is the
\* name of a configuration of the store, or the invocation prints the listing
\* and 'configuration "<name>" not found', exits with status 1, resolves no
\* command and spawns nothing.
C6_UnknownSelectorRejected ==
    (pc \notin {"start", "load", "selector"} /\ FindPositional(tokens) # 0
       /\ ~Includes(availableCommands, FirstPositional)) =>
        \/ InStore(FirstPositional)
        \/ /\ Exited /\ exitCode = 1
           /\ stdout = <<Listing(availableConfigs)>>
           /\ stderr = <<ErrNotFound(FirstPositional)>>
           /\ command = FindPositional(tokens) /\ file = 0 /\ ~Validated
           /\ spawned = <<>> /\ child = NoChild

\* the number of positional tokens of the command line
NumPositionals == Cardinality({k \in DOMAIN argv : ~StartsWithDash(argv[k])})

\* the command token has been resolved and consumed (line 36)
CommandResolved == command # 0 /\ tokens[command].consumed

\* C7: when the resolved command is test or run and the selector (if any) and
\* the command are the only positional tokens, the invocation wrote exactly
\* 'expected filename', exited with status 1, printed no help and started no
\* external process.
C7_MissingFile ==
    (CommandResolved /\ RunOrTest
       /\ NumPositionals = (IF Truthy(selected) THEN 2 ELSE 1)) =>
        /\ Exited /\ exitCode = 1
        /\ stderr = <<ErrNoFile>>
        /\ \A j \in DOMAIN stdout : stdout[j].kind # "help"
        /\ spawned = <<>> /\ child = NoChild /\ ~Validated

C7_Witness ==
    /\ Exited /\ stderr = <<ErrNoFile>> /\ Truthy(selected)
    /\ \E k \in DOMAIN argv : StartsWithDash(argv[k])

\* C8 (as claimed): once classification has completed without a usage error
\* the resolved command is one of test, run, list, help.
C8_CommandIsKnown ==
    Validated => Includes(availableCommands, tokens[command].value)

\* C9 (as claimed): when the resolved command is list or help, or there is no
\* positional token at all, then whatever the store holds no directory is
\* made, no external process is ever spawned, and the process exits with
\* status 0.
C9_ListHelpSpawnNothing ==
    (\/ CommandResolved /\ tokens[command].value \in {S_list, S_help}
     \/ pc # "start" /\ NumPositionals = 0) =>
        /\ spawned = <<>> /\ child = NoChild /\ mkdirs = <<>>
        /\ Exited => exitCode = 0

\* the elements of s at the indexes in I, in order
Keep(s, I) ==
    LET F[k \in 0..Len(s)] ==
            IF k = 0 THEN <<>>
            ELSE IF k \in I THEN Append(F[k - 1], s[k]) ELSE F[k - 1]
    IN  F[Len(s)]

\* the index of the selector token, 0 if there is none
SelectorIndex == IF Truthy(selected) THEN FindPositional(tokens) ELSE 0

\* C10: for run/test, extras is the command line without the selector, the
\* command and the file tokens, in the original order, and every compile step
\* is called with the file followed by that same extras.
C10_ExtrasForwarded ==
    (Validated /\ RunOrTest) =>
        /\ extras = Keep(argv, DOMAIN argv \ {SelectorIndex, command, file})
        /\ \A j \in DOMAIN spawned :
              spawned[j].call.cmd = "zig" =>
                  spawned[j].call.rest = <<argv[file]>> \o extras

C10_Witness ==
    /\ Exited /\ argv = <<S_flag, S_run, S_file, S_amd64, S_file>>
    /\ extras = <<S_flag, S_amd64, S_file>>
    /\ Len(configs) = 2
    /\ \A k \in 1..2 :
          \E j \in DOMAIN spawned :
              /\ spawned[j].call.cmd = "zig" /\ spawned[j].call.config = k
              /\ spawned[j].call.rest = <<S_file, S_flag, S_amd64, S_file>>

\* C11 (as claimed): the promise of run() is settled at the close of every
\* child it started; it is resolved exactly when the child exited with status
\* 0, and otherwise rejected with an error that carries the exit code.
C11_RunnerSettlesByExitStatus ==
    /\ child = NoChild =>
          Len(closed) = Cardinality({j \in DOMAIN spawned :
                                        spawned[j].outcome = "started"})
    /\ \A j \in DOMAIN closed :
          /\ closed[j].result.settled = "resolved"
                <=> (~closed[j].evt.isNull /\ closed[j].evt.code = 0)
          /\ closed[j].result.settled = "rejected" =>
                (~closed[j].result.isNull /\ closed[j].result.code = closed[j].evt.code)

\* C12: if the command line has no positional token, help is printed once,
\* nothing is logged, the process exits with status 0, the store is never
\* loaded or looked up and nothing is spawned.
C12_NoPositionalPrintsHelp ==
    (pc # "start" /\ NumPositionals = 0) =>
        /\ Exited /\ exitCode = 0
        /\ stdout = <<HelpText>> /\ stderr = <<>>
        /\ command = 0 /\ selected = Undefined
        /\ availableConfigs = NotLoaded /\ hostArch = <<>>
        /\ spawned = <<>> /\ mkdirs = <<>> /\ child = NoChild

C12_Witness ==
    /\ Exited /\ stdout = <<HelpText>> /\ exitCode = 0
    /\ Len(argv) = 2 /\ \A k \in DOMAIN argv : StartsWithDash(argv[k])
    /\ persisted.ok /\ persisted.entries # <<>>

\* C13: whenever reading or parsing the persisted file failed, the loaded
\* store is exactly one configuration, keyed by its own container
\* architecture: arm64 with compile architecture aarch64 on an x64 host,
\* amd64 with x86_64 on any other; the load itself prints and logs nothing
\* and does not end the process, and an invocation that only lists or prints
\* help still exits with status 0 and an empty error stream.
C13_LoadFailureFallsBack ==
    (~persisted.ok /\ NumPositionals > 0 /\ pc \notin {"start", "load"}) =>
        /\ availableConfigs.type = "object"
        /\ Len(availableConfigs.entries) = 1
        /\ LET name == availableConfigs.entries[1].name
               config == availableConfigs.entries[1].value
           IN  /\ name = config.docker.arch
               /\ config.type = "object"
               /\ config.zig =
                     [nullish |-> FALSE,
                      arch |-> IF hostArch = S_x64 THEN S_aarch64 ELSE S_x86_64,
                      platform |-> S_linux]
               /\ config.docker =
                     [nullish |-> FALSE,
                      arch |-> IF hostArch = S_x64 THEN S_arm64 ELSE S_amd64,
                      platform |-> S_linux, image |-> S_ubuntu]
        /\ hostArch \in HostArchs
        /\ pc = "selector" => (stdout = <<>> /\ stderr = <<>>)
        /\ (Exited /\ CommandResolved /\ tokens[command].value \in {S_list, S_help})
              => (exitCode = 0 /\ stderr = <<>>)

C13_Witness ==
    /\ ~persisted.ok /\ Exited /\ hostArch = S_x64
    /\ CommandResolved /\ tokens[command].value = S_list
    /\ Len(stdout) = 1 /\ stdout[1].kind = "listing"
    /\ stdout[1].names = <<S_arm64>>
    /\ stdout[1].text = <<S_arm64, S_aarch64 \o <<"-">> \o S_linux,
                          S_linux \o <<"/">> \o S_arm64, S_ubuntu>>

\* the spawn calls that started a child
Started == {j \in DOMAIN spawned : spawned[j].outcome = "started"}

StartedFor(k) == {j \in Started : spawned[j].call.config = k}
ClosedFor(k) == {j \in DOMAIN closed : closed[j].config = k}

HasClosed(cmd, k) ==
    \E j \in DOMAIN closed : closed[j].cmd = cmd /\ closed[j].config = k

\* C14: at most one external process is running at any moment: the children
\* started and not yet closed are none, or the one the tool waits for; the
\* container step of a configuration is called only after its compile step
\* has closed, and the compile step of configuration k + 1 only after every
\* child of configuration k has closed.
C14_OneProcessAtATime ==
    /\ Len(closed) <= Cardinality(Started)
    /\ Cardinality(Started) <= Len(closed) + 1
    /\ (Cardinality(Started) = Len(closed)) <=> (child = NoChild)
    /\ \A j \in DOMAIN spawned :
          LET k == spawned[j].call.config
          IN  /\ spawned[j].call.cmd = "docker" => HasClosed("zig", k)
              /\ (spawned[j].call.cmd = "zig" /\ k > 1) =>
                    Cardinality(StartedFor(k - 1)) = Cardinality(ClosedFor(k - 1))

C14_Witness ==
    /\ child = [cmd |-> "docker", config |-> 2]
    /\ HasClosed("zig", 1) /\ HasClosed("docker", 1) /\ HasClosed("zig", 2)

\* C15 (as claimed): list and help are executed exactly once per invocation,
\* whatever the number of configurations (zero, one or several): at exit the
\* help text has been printed once, or the listing rendered once (rendering
\* an empty store prints nothing).
C15_ListHelpOnce ==
    (Exited /\ CommandResolved) =>
        /\ tokens[command].value = S_help => stdout = <<HelpText>>
        /\ tokens[command].value = S_list =>
              \/ stdout = <<Listing(availableConfigs)>>
              \/ availableConfigs.entries = <<>> /\ stdout = <<>>

\* the indexes of the tokens that were given a role
Roles == {SelectorIndex, command, file} \ {0}

\* C16: once classification has completed, selector, command and file are
\* distinct positional tokens in that order of the command line, the consumed
\* tokens are exactly those with a role, and for run/test the tokens with a
\* role and extras partition the command line.
C16_OneRolePerToken ==
    Validated =>
        /\ command # 0
        /\ SelectorIndex # 0 => SelectorIndex < command
        /\ file # 0 => command < file
        /\ \A k \in Roles : k \in DOMAIN argv /\ ~StartsWithDash(argv[k])
        /\ {k \in DOMAIN tokens : tokens[k].consumed} = Roles
        /\ RunOrTest =>
              /\ file # 0
              /\ Len(extras) + Cardinality(Roles) = Len(argv)
              /\ \A v \in Vocabulary :
                    Cardinality({k \in DOMAIN argv : argv[k] = v}) =
                        Cardinality({k \in DOMAIN extras : extras[k] = v})
                        + Cardinality({k \in Roles : argv[k] = v})

C16_Witness ==
    /\ Validated /\ SelectorIndex = 1 /\ command = 2 /\ file = 3
    /\ RunOrTest /\ extras = <<>>

\* C17: if mkdir fails with an error other than EEXIST for a configuration,
\* neither step is called for it, its attempt is over and counted as one
\* failure, and the next configuration is still attempted; after an EEXIST
\* outcome makeDir returns normally and the compile step is called.
C17_MakeDirFailure ==
    \A j \in DOMAIN mkdirs :
        LET k == mkdirs[j].config
        IN  /\ mkdirs[j].outcome \notin {"ok", "EEXIST"} =>
                  /\ ~SpawnCalled("zig", k) /\ ~SpawnCalled("docker", k)
                  /\ k < iter
                  /\ failures >= 1
                  /\ failures = Cardinality({i \in 1..(iter - 1) : AttemptFailed(i)})
                  /\ (Exited /\ k < Len(configs)) => (k + 1) \in DOMAIN attempts
            /\ mkdirs[j].outcome = "EEXIST" =>
                  \/ pc = "compile" /\ iter = k
                  \/ SpawnCalled("zig", k)

C17_Witness ==
    /\ Exited /\ Len(mkdirs) = 2
    /\ mkdirs[1] = [config |-> 1, outcome |-> "EACCES"]
    /\ mkdirs[2] = [config |-> 2, outcome |-> "EEXIST"]
    /\ ExitedZero("zig", 2) /\ failures = 1

\* C18 (as claimed): when a selector that names a configuration of the store
\* is the only positional token, help is printed, the error 'expected command
\* argument' is logged, the process exits with status 1 and nothing is
\* spawned.
C18_MissingCommand ==
    (pc \notin {"start", "load", "selector"} /\ NumPositionals = 1
       /\ InStore(FirstPositional)
       /\ ~Includes(availableCommands, FirstPositional)) =>
        /\ Exited /\ exitCode = 1
        /\ stdout = <<HelpText>>
        /\ stderr = <<[pre |-> "error: expected command argument\n",
                       name |-> <<>>, post |-> ""]>>
        /\ spawned = <<>> /\ child = NoChild /\ ~Validated

\* C19: once the dispatcher has been entered, no step changes the store, the
\* list of configurations, the tokens, the command, the file or extras;
\* failures never decreases, grows by at most 1 in a step, and only in a step
\* that ends the attempt of a configuration, and it never exceeds the number
\* of configurations attempted so far.
C19_IterationFrame ==
    [][Validated =>
          /\ availableConfigs' = availableConfigs
          /\ configs' = configs
          /\ selected' = selected
          /\ tokens' = tokens
          /\ command' = command
          /\ file' = file
          /\ extras' = extras
          /\ failures' >= failures
          /\ failures' <= failures + 1
          /\ failures' # failures => iter' = iter + 1
          /\ failures' <= Len(attempts')
          /\ Len(attempts') <= Len(configs')]_vars

C19_Witness ==
    /\ LoopFinished /\ RunOrTest /\ Len(configs) = 2 /\ failures = 2
    /\ ExitedNonZero("zig", 1) /\ ExitedNonZero("docker", 2)

\* C20: provided every operation the tool waits for completes, every
\* invocation ends with an exit status, and the process never exits while a
\* child it started is running.
C20_TerminatesAfterChildren ==
    /\ <>(Exited /\ exitCode \in {0, 1})
    /\ [](Exited => (child = NoChild /\ Cardinality(Started) = Len(closed)))

C20_Witness ==
    /\ LoopFinished /\ HasClosed("zig", 2) /\ HasClosed("docker", 2)
    /\ child = NoChild /\ exitCode = 0

====
